---------------------------- MODULE Spec2Model ----------------------------
(***************************************************************************)
(* State-materialization layer of the discussion board (modeneis/bbs):     *)
(*   - the Compiler (src/src/store/state/compiler.go): the board mapping,  *)
(*     its lock, the background refresh loop and Close;                    *)
(*   - the snapshot instance (src/src/store/state/states/v1/               *)
(*     pack_instance.go): construction, the origin index and the change    *)
(*     set, and the two vote-page appends;                                 *)
(*   - the Viewer (src/src/store/state/viewer.go): user-vote processing,   *)
(*     bootstrap from a snapshot, Update and the read queries.             *)
(* Each component has its own specification over the shared variables; the *)
(* variables of the other components stay at their initial values.         *)
(***************************************************************************)
EXTENDS Integers, Sequences, FiniteSets, TLC

VARIABLES
    \* ---- Compiler ----
    loopPc,      \* position of the goroutine started by NewCompiler
    closePc,     \* position of the caller of Compiler.Close
    wg,          \* counter of Compiler.wg
    ticker,      \* "none" | "running" | "stopped"
    tickPending, \* a tick is buffered in ticker.C
    mux,         \* owner of Compiler.mux: "free" | "loop" | "caller"
    boards,      \* Compiler.boards: public key -> board instance
    nInst,       \* number of board instances built so far
    callerPc,    \* position of the thread calling InitBoard / GetBoard
    callerArgs,  \* arguments of the InitBoard call in progress
    cret,        \* what the last InitBoard / GetBoard call returned
    lastGood,    \* history: per public key, the last successful InitBoard
    sweep,       \* history: what the last sweep of doUpdate did with each
                 \* board: "skipped" | "updated" | "failed"
    \* ---- Snapshot instance (PackInstance) ----
    fetched,     \* the pack handed to NewPackInstance: its root's slots
    inst,        \* the PackInstance in use: its pack's slots and its stores
    pret,        \* what the last PackInstance operation returned
    packMux,     \* owner of PackInstance.packMux: "free" or a caller of Do
    app,         \* per caller of Do: the append it runs, where it is in
                 \* it, the page list it has read and what it returned
    \* ---- Viewer ----
    viewer,      \* Viewer.i.Users and Viewer.c.profiles
    uvLast,      \* history: the user-vote processed last, and whether its
                 \* creator trusted its target before
    \* ---- Viewer: content, votes, Update and the read queries ----
    snapshot,    \* the board's latest snapshot: board item, thread pages,
                 \* submissions of the users
    view,        \* the *Viewer: nil, or its Indexer and Container
    vmux,        \* owner of Viewer.mux: "free" | "update"
    upd,         \* the Update call in progress, and what the last returned
    qret,        \* what the last read query returned
    stable       \* history: the Viewer as the last call that returned
                 \* without error (NewViewer or Update) left it

compilerVars == <<loopPc, closePc, wg, ticker, tickPending, mux, boards,
                  nInst, callerPc, callerArgs, cret, lastGood, sweep>>

packVars == <<fetched, inst, pret, packMux, app>>

viewerVars == <<viewer, uvLast>>

contentVars == <<snapshot, view, vmux, upd, qret, stable>>

vars == <<compilerVars, packVars, viewerVars, contentVars>>

(***************************************************************************)
(* Bounds                                                                  *)
(***************************************************************************)
MaxInst == 2

PKs == {"pk1", "pk2"}

(***************************************************************************)
(* COMPILER                                                                *)
(***************************************************************************)
NoArgs == [pk |-> "none", nsk |-> 0]
NoRet == [op |-> "none", pk |-> "none", nsk |-> 0, fetched |-> FALSE,
          err |-> "none", id |-> 0, master |-> FALSE]

\* NewBoardInstance(&BoardInstanceConfig{Master: m, PK: pk, ...}, ...):
\* a fresh instance; its update policy starts with no refresh due.
NewBoardInstance(id, m) == [id |-> id, master |-> m, due |-> FALSE]

\* c.boards[pk] = bi
MapSet(m, pk, bi) ==
    [p \in (DOMAIN m) \cup {pk} |-> IF p = pk THEN bi ELSE m[p]]

\* bi.Update(c.node, nil): on success the instance has caught up with the
\* latest snapshot and no refresh is due; on failure it is left as it was.
BoardInstanceUpdate(bi, ok) == IF ok THEN [bi EXCEPT !.due = FALSE] ELSE bi

\* Body of the loop of doUpdate for one board.
doUpdateOne(bi, ok) ==
    IF bi.master /\ bi.due THEN BoardInstanceUpdate(bi, ok) ELSE bi

\* doUpdate with a sweep that returns when bi.Update fails for "pk1", the
\* board ranged over first.
doUpdateBoards_StopOnError(m, oks) ==
    [p \in DOMAIN m |->
        IF /\ p # "pk1"
           /\ "pk1" \in DOMAIN m
           /\ m["pk1"].master /\ m["pk1"].due /\ ~oks["pk1"]
        THEN m[p]
        ELSE doUpdateOne(m[p], oks[p])]

\* doUpdate's sweep over c.boards; oks[pk] is whether bi.Update succeeds.
doUpdateBoards(m, oks) == [p \in DOMAIN m |-> doUpdateOne(m[p], oks[p])]

\* What a sweep from m to m2 did with each board: it updated the board,
\* bi.Update returned an error (the line doUpdate logs), or neither.
SweepOutcome(m, m2, oks) ==
    [p \in DOMAIN m |->
        IF m2[p] # m[p] THEN "updated"
        ELSE IF m[p].master /\ m[p].due /\ ~oks[p] THEN "failed"
        ELSE "skipped"]

\* InitBoard with case 1 building a read-only instance (Master: false).
InitBoardResult_SubscriberOnly(m, pk, nsk, fetchOk, buildOk, id) ==
    IF ~fetchOk THEN [boards |-> m, err |-> "FetchFailed", built |-> FALSE]
    ELSE IF nsk \in {0, 1} THEN
        IF ~buildOk THEN [boards |-> m, err |-> "BuildFailed", built |-> FALSE]
        ELSE [boards |-> MapSet(m, pk, NewBoardInstance(id, FALSE)),
              err |-> "nil", built |-> TRUE]
    ELSE [boards |-> m, err |-> "Internal", built |-> FALSE]

\* InitBoard with the switch taking every non-empty sk as case 1 (sk[0]).
InitBoardResult_NoDefault(m, pk, nsk, fetchOk, buildOk, id) ==
    IF ~fetchOk THEN [boards |-> m, err |-> "FetchFailed", built |-> FALSE]
    ELSE IF ~buildOk THEN [boards |-> m, err |-> "BuildFailed", built |-> FALSE]
    ELSE [boards |-> MapSet(m, pk, NewBoardInstance(id, nsk > 0)),
          err |-> "nil", built |-> TRUE]

\* Compiler.InitBoard between Lock and Unlock: the new mapping and the
\* returned error.
InitBoardResult(m, pk, nsk, fetchOk, buildOk, id) ==
    IF ~fetchOk THEN [boards |-> m, err |-> "FetchFailed", built |-> FALSE]
    ELSE IF nsk = 0 THEN
        IF ~buildOk THEN [boards |-> m, err |-> "BuildFailed", built |-> FALSE]
        ELSE [boards |-> MapSet(m, pk, NewBoardInstance(id, FALSE)),
              err |-> "nil", built |-> TRUE]
    ELSE IF nsk = 1 THEN
        IF ~buildOk THEN [boards |-> m, err |-> "BuildFailed", built |-> FALSE]
        ELSE [boards |-> MapSet(m, pk, NewBoardInstance(id, TRUE)),
              err |-> "nil", built |-> TRUE]
    ELSE [boards |-> m, err |-> "Internal", built |-> FALSE]

\* Compiler.GetBoard between Lock and Unlock.
GetBoardResult(m, pk) ==
    IF pk \notin DOMAIN m
    THEN [NoRet EXCEPT !.op = "GetBoard", !.pk = pk, !.err = "NotFound"]
    ELSE [NoRet EXCEPT !.op = "GetBoard", !.pk = pk, !.err = "nil",
                       !.id = m[pk].id, !.master = m[pk].master]

\* The Compiler as NewCompiler returns it: the goroutine of updateLoop is
\* started and has not run yet.
CompilerIdle ==
    /\ loopPc = "spawned"
    /\ closePc = "idle"
    /\ wg = 0
    /\ ticker = "none"
    /\ tickPending = FALSE
    /\ mux = "free"
    /\ boards = [p \in {} |-> NewBoardInstance(0, FALSE)]
    /\ nInst = 0
    /\ callerPc = "idle"
    /\ callerArgs = NoArgs
    /\ cret = NoRet
    /\ lastGood = [p \in {} |-> [id |-> 0, hadSk |-> FALSE]]
    /\ sweep = [p \in {} |-> "skipped"]

loopVars == <<loopPc, wg, ticker, tickPending>>
callVars == <<callerPc, callerArgs, cret, lastGood, nInst, packVars,
              viewerVars, contentVars>>

\* updateLoop: c.wg.Add(1); defer c.wg.Done(); ticker := time.NewTicker(..)
updateLoop_Add ==
    /\ loopPc = "spawned"
    /\ wg' = wg + 1
    /\ ticker' = "running"
    /\ loopPc' = "select"
    /\ UNCHANGED <<closePc, tickPending, mux, boards, callVars, sweep>>

\* updateLoop's select finds no ready case and blocks on both channels.
updateLoop_Park ==
    /\ loopPc = "select"
    /\ ~tickPending
    /\ loopPc' = "parked"
    /\ UNCHANGED <<closePc, wg, ticker, tickPending, mux, boards, callVars,
                   sweep>>

\* updateLoop's select takes the buffered tick: case <-ticker.C.
updateLoop_Tick ==
    /\ loopPc = "select"
    /\ tickPending
    /\ tickPending' = FALSE
    /\ loopPc' = "lock"
    /\ UNCHANGED <<closePc, wg, ticker, mux, boards, callVars, sweep>>

\* The runtime timer fires: the tick is handed to the blocked loop, or is
\* buffered in ticker.C (capacity 1) when the loop is elsewhere.
Tick ==
    /\ ticker = "running"
    /\ \/ /\ loopPc = "parked"
          /\ loopPc' = "lock"
          /\ UNCHANGED tickPending
       \/ /\ loopPc # "parked"
          /\ ~tickPending
          /\ tickPending' = TRUE
          /\ UNCHANGED loopPc
    /\ UNCHANGED <<closePc, wg, ticker, mux, boards, callVars, sweep>>

\* doUpdate: c.mux.Lock()
doUpdate_Lock ==
    /\ loopPc = "lock"
    /\ mux = "free"
    /\ mux' = "loop"
    /\ loopPc' = "sweep"
    /\ UNCHANGED <<closePc, wg, ticker, tickPending, boards, callVars, sweep>>

\* doUpdate: the sweep over c.boards and the deferred c.mux.Unlock().
doUpdate ==
    /\ loopPc = "sweep"
    /\ \E oks \in [PKs -> BOOLEAN] :
         /\ boards' = doUpdateBoards(boards, oks)
         /\ sweep' = SweepOutcome(boards, boards', oks)
    /\ mux' = "free"
    /\ loopPc' = "select"
    /\ UNCHANGED <<closePc, wg, ticker, tickPending, callVars>>

\* updateLoop returns: deferred ticker.Stop() and c.wg.Done().
updateLoop_Done ==
    /\ loopPc = "quit"
    /\ ticker' = "stopped"
    /\ wg' = wg - 1
    /\ loopPc' = "exited"
    /\ UNCHANGED <<closePc, tickPending, mux, boards, callVars, sweep>>

\* A caller enters Compiler.Close.
Close_Call ==
    /\ closePc = "idle"
    /\ closePc' = "select"
    /\ UNCHANGED <<loopVars, mux, boards, callVars, sweep>>

\* Close's select, case c.quit <- struct{}{}: the send on the unbuffered
\* channel succeeds only against the loop blocked in its select, which
\* then takes case <-c.quit and returns; Close goes round its for loop.
Close_Send ==
    /\ closePc = "select"
    /\ loopPc = "parked"
    /\ loopPc' = "quit"
    /\ UNCHANGED <<closePc, wg, ticker, tickPending, mux, boards, callVars,
                   sweep>>

\* Close's select, default: no receiver is blocked on c.quit.
Close_Default ==
    /\ closePc = "select"
    /\ loopPc # "parked"
    /\ closePc' = "wait"
    /\ UNCHANGED <<loopVars, mux, boards, callVars, sweep>>

\* Close: c.wg.Wait() returns when the counter is zero; then return.
Close_Wait ==
    /\ closePc = "wait"
    /\ wg = 0
    /\ closePc' = "returned"
    /\ UNCHANGED <<loopVars, mux, boards, callVars, sweep>>

\* InitBoard: c.mux.Lock()
InitBoard_Lock ==
    /\ callerPc = "idle"
    /\ mux = "free"
    /\ nInst < MaxInst
    /\ \E pk \in PKs, nsk \in 0..2 : callerArgs' = [pk |-> pk, nsk |-> nsk]
    /\ mux' = "caller"
    /\ callerPc' = "init"
    /\ UNCHANGED <<loopVars, closePc, boards, cret, lastGood, nInst, sweep,
                   packVars,
                   viewerVars, contentVars>>

\* InitBoard: LastFull, the switch on len(sk), the deferred Unlock.
InitBoard ==
    /\ callerPc = "init"
    /\ \E fetchOk \in BOOLEAN, buildOk \in BOOLEAN :
         LET r == InitBoardResult(boards, callerArgs.pk, callerArgs.nsk,
                                  fetchOk, buildOk, nInst + 1)
         IN /\ boards' = r.boards
            /\ nInst' = IF r.built THEN nInst + 1 ELSE nInst
            /\ cret' = [NoRet EXCEPT !.op = "InitBoard",
                                     !.pk = callerArgs.pk,
                                     !.nsk = callerArgs.nsk,
                                     !.fetched = fetchOk,
                                     !.err = r.err,
                                     !.id = IF r.built THEN nInst + 1 ELSE 0]
            /\ lastGood' = IF r.err = "nil"
                           THEN MapSet(lastGood, callerArgs.pk,
                                       [id |-> nInst + 1,
                                        hadSk |-> callerArgs.nsk > 0])
                           ELSE lastGood
    /\ mux' = "free"
    /\ callerPc' = "idle"
    /\ callerArgs' = NoArgs
    /\ UNCHANGED <<loopVars, closePc, sweep, packVars, viewerVars,
                   contentVars>>

\* GetBoard: Lock, lookup, Unlock.
GetBoard ==
    /\ callerPc = "idle"
    /\ mux = "free"
    /\ \E pk \in PKs : cret' = GetBoardResult(boards, pk)
    /\ UNCHANGED <<loopVars, closePc, mux, boards, callerPc, callerArgs,
                   lastGood, nInst, sweep, packVars, viewerVars, contentVars>>

\* The update policy of a board instance reports that a refresh is due.
MarkDue ==
    /\ \E pk \in DOMAIN boards :
         /\ ~boards[pk].due
         /\ boards' = [boards EXCEPT ![pk].due = TRUE]
    /\ UNCHANGED <<loopVars, closePc, mux, callVars, sweep>>

LoopStep ==
    \/ updateLoop_Add
    \/ updateLoop_Park
    \/ updateLoop_Tick
    \/ doUpdate_Lock
    \/ doUpdate
    \/ updateLoop_Done

CloseStep ==
    \/ Close_Send
    \/ Close_Default
    \/ Close_Wait

CallerStep ==
    \/ InitBoard
    \/ InitBoard_Lock
    \/ GetBoard

NextCompiler ==
    \/ LoopStep
    \/ CloseStep
    \/ CallerStep
    \/ Close_Call
    \/ Tick
    \/ MarkDue

(***************************************************************************)
(* SNAPSHOT INSTANCE                                                       *)
(***************************************************************************)
MaxPages == 2

Hashes == {"h1", "h2"}

\* The fixed root schema: the number of reference slots and the index of
\* each (from 1 here, from 0 in the source).
countRootRefs == 5
indexContent == 1
indexDeleted == 2
indexThreadVotes == 3
indexPostVotes == 4
indexUserVotes == 5

\* The variant each type assertion of extract expects at a slot.
ExpectedKind(i) ==
    CASE i = indexContent -> "ThreadPages"
      [] i = indexDeleted -> "Deleted"
      [] i = indexThreadVotes -> "ThreadVotesPages"
      [] i = indexPostVotes -> "PostVotesPages"
      [] i = indexUserVotes -> "UserVotesPages"
      [] OTHER -> "Unknown"

\* Sequences of distinct hashes of length at most n.
RECURSIVE DistinctSeqs(_)
DistinctSeqs(n) ==
    IF n = 0 THEN {<<>>}
    ELSE LET shorter == DistinctSeqs(n - 1)
             longer == {Append(q, h) : q \in shorter, h \in Hashes}
         IN shorter \cup
            {q \in longer : \A i, j \in 1..Len(q) : q[i] = q[j] => i = j}

Range(q) == {q[i] : i \in 1..Len(q)}
Count(q, h) == Cardinality({i \in 1..Len(q) : q[i] = h})

Slot(kind, refs) == [kind |-> kind, refs |-> refs]

\* Roots of the fixed schema, with every choice of the two vote-page lists.
WellFormedRoots ==
    {[i \in 1..countRootRefs |->
        Slot(ExpectedKind(i),
             IF i = indexThreadVotes THEN tv
             ELSE IF i = indexPostVotes THEN pv ELSE <<>>)] :
        tv \in DistinctSeqs(MaxPages), pv \in DistinctSeqs(MaxPages)}

\* Roots with one slot too few or too many, or with slots that hold the
\* variant expected at the next index.
OddRoots ==
    {[i \in 1..n |->
        Slot(IF i \in wrong THEN ExpectedKind((i % countRootRefs) + 1)
             ELSE ExpectedKind(i), <<>>)] :
        n \in (countRootRefs - 1)..(countRootRefs + 1),
        wrong \in SUBSET (1..countRootRefs)}

Roots == WellFormedRoots \cup OddRoots

\* The hash no content has (the zero value of cipher.SHA256).
ZeroHash == "zero"

MaxDeleted == 1

\* The threads and posts of the boards whose content is followed; a hash
\* names one content item, so no hash is both a thread and a post.
ThreadHashes == {"h1"}
PostHashes == {"h2", "h3"}

\* Sequences of distinct elements of S of length at most n.
RECURSIVE DistinctSeqsOf(_, _)
DistinctSeqsOf(S, n) ==
    IF n = 0 THEN {<<>>}
    ELSE LET shorter == DistinctSeqsOf(S, n - 1)
             longer == {Append(q, h) : q \in shorter, h \in S}
         IN shorter \cup
            {q \in longer : \A i, j \in 1..Len(q) : q[i] = q[j] => i = j}

\* A thread page of the ThreadPages slot: the thread and its posts.
ThreadPage(t, posts) == [Thread |-> t, Posts |-> posts]

\* The thread trees of a board with at most one thread.
ThreadTrees ==
    {<<>>} \cup
    {<<ThreadPage(t, ps)>> :
        t \in ThreadHashes, ps \in DistinctSeqsOf(PostHashes, MaxPages)}

\* The lists of a Deleted object: refs is <<Threads, Posts>>, or <<>> for
\* two empty lists.
DeletedThreads(slot) == IF slot.refs = <<>> THEN <<>> ELSE slot.refs[1]
DeletedPosts(slot) == IF slot.refs = <<>> THEN <<>> ELSE slot.refs[2]

\* Roots of the fixed schema with a thread tree and a Deleted object, and
\* no vote pages.
ContentRoots ==
    {[i \in 1..countRootRefs |->
        Slot(ExpectedKind(i),
             IF i = indexContent THEN tree
             ELSE IF i = indexDeleted THEN <<dt, dp>> ELSE <<>>)] :
        tree \in ThreadTrees,
        dt \in DistinctSeqsOf(ThreadHashes, MaxDeleted),
        dp \in DistinctSeqsOf(PostHashes, MaxDeleted)}

\* A *ContentVotesStore: nil, or the map content hash -> vote summary.
NilStore == [nil |-> TRUE, m |-> <<>>]
VotesSummary(i, h) == [Index |-> i, OfContent |-> h]
StoreHas(st, h) == ~st.nil /\ h \in DOMAIN st.m

\* store.Set(h, summary)
StoreSet(st, h, sum) ==
    [st EXCEPT !.m = [x \in (DOMAIN st.m) \cup {h} |->
                        IF x = h THEN sum ELSE st.m[x]]]

\* NewContentVotesStore(old, name, hash, pages, changes): one summary per
\* vote page of the list, plus the entries carried forward from old.
NewContentVotesStore(old, pages) ==
    LET carried == IF old.nil THEN {} ELSE DOMAIN old.m
    IN [nil |-> FALSE,
        m |-> [h \in carried \cup Range(pages) |->
                 IF h \in Range(pages)
                 THEN VotesSummary(
                        (CHOOSE i \in 1..Len(pages) : pages[i] = h) - 1, h)
                 ELSE old.m[h]]]

\* io.NewChanges(pk, record): an empty change set that records or not.
NewChanges(record) ==
    [record |-> record, new |-> <<>>, deletedThreads |-> <<>>,
     deletedPosts |-> <<>>]

\* Changes.RecordDeleteThread(ref) / RecordDeletePost(tRef, ref) and the
\* recording of new content: no-ops when recording is disabled.
RecordDeleteThread(ch, ref) ==
    IF ~ch.record THEN ch
    ELSE [ch EXCEPT !.deletedThreads = Append(@, ref)]
RecordDeletePost(ch, tRef, ref) ==
    IF ~ch.record THEN ch
    ELSE [ch EXCEPT !.deletedPosts =
                        Append(@, [OfThread |-> tRef, Post |-> ref])]
RecordNew(ch, ref) ==
    IF ~ch.record THEN ch ELSE [ch EXCEPT !.new = Append(@, ref)]

\* The content of a thread tree in order (a thread, then its posts), each
\* with the thread it belongs to.
RECURSIVE TreeEntries(_)
TreeEntries(tree) ==
    IF tree = <<>> THEN <<>>
    ELSE LET pg == Head(tree)
         IN <<[Hash |-> pg.Thread, OfThread |-> pg.Thread]>>
            \o [i \in 1..Len(pg.Posts) |->
                  [Hash |-> pg.Posts[i], OfThread |-> pg.Thread]]
            \o TreeEntries(Tail(tree))

\* The entries of a tree that old does not know are recorded as new.
RECURSIVE RecordNewEntries(_, _, _)
RecordNewEntries(ch, old, es) ==
    IF es = <<>> THEN ch
    ELSE RecordNewEntries(
            IF StoreHas(old, Head(es).Hash) THEN ch
            ELSE RecordNew(ch, Head(es).Hash),
            old, Tail(es))

\* NewGotStore(old, hash, tPages, changes): the origin of every thread and
\* post of the tree, plus the entries carried forward from old.
NewGotStore(old, tree, ch) ==
    LET es == TreeEntries(tree)
        inTree == {es[i].Hash : i \in 1..Len(es)}
        carried == IF old.nil THEN {} ELSE DOMAIN old.m
    IN [store |->
          [nil |-> FALSE,
           m |-> [h \in carried \cup inTree |->
                    IF h \in inTree
                    THEN es[CHOOSE i \in 1..Len(es) : es[i].Hash = h].OfThread
                    ELSE old.m[h]]],
        changes |-> RecordNewEntries(ch, old, es)]

\* GotStore.GetPostOrigin(ref): the thread of the post, the zero hash when
\* the store does not know ref.
GetPostOrigin(gs, ref) ==
    IF StoreHas(gs, ref) THEN gs.m[ref] ELSE ZeroHash

\* extract's two loops over the Deleted object; oldGS is the origin index
\* of the previous instance (nil when there is none).
RECURSIVE RecordDeletedThreads(_, _)
RecordDeletedThreads(ch, refs) ==
    IF refs = <<>> THEN ch
    ELSE RecordDeletedThreads(RecordDeleteThread(ch, Head(refs)), Tail(refs))

RECURSIVE RecordDeletedPosts(_, _, _)
RecordDeletedPosts(ch, oldGS, refs) ==
    IF refs = <<>> THEN ch
    ELSE LET tRef == IF ~oldGS.nil THEN GetPostOrigin(oldGS, Head(refs))
                     ELSE ZeroHash
         IN RecordDeletedPosts(RecordDeletePost(ch, tRef, Head(refs)),
                               oldGS, Tail(refs))

ProcessDeleted(ch, oldGS, deleted) ==
    RecordDeletedPosts(RecordDeletedThreads(ch, DeletedThreads(deleted)),
                       oldGS, DeletedPosts(deleted))

\* NewPackInstance and extract with a change set that records also when
\* there is no previous instance.
GotStoreAndChanges_Recording(prev, root) ==
    LET gs == NewGotStore(prev.gotStore, root[indexContent].refs,
                          NewChanges(TRUE))
    IN [gotStore |-> gs.store,
        changes |-> ProcessDeleted(gs.changes, prev.gotStore,
                                   root[indexDeleted])]

\* The origin index and the change set of an instance built from root with
\* the previous instance prev (NewPackInstance's io.NewChanges, extract's
\* NewGotStore and its processing of Deleted).
GotStoreAndChanges(prev, root) ==
    LET gs == NewGotStore(prev.gotStore, root[indexContent].refs,
                          NewChanges(prev.live))
    IN [gotStore |-> gs.store,
        changes |-> ProcessDeleted(gs.changes, prev.gotStore,
                                   root[indexDeleted])]

NoInst == [live |-> FALSE, pack |-> <<>>,
           tVotesStore |-> NilStore, pVotesStore |-> NilStore,
           gotStore |-> NilStore, changes |-> NewChanges(FALSE)]

Failed(kind) == [err |-> kind, inst |-> NoInst]

\* extractRootChildren
extractRootChildren(root, rootRefsOk) ==
    IF ~rootRefsOk THEN "InvalidRead"
    ELSE IF Len(root) # countRootRefs THEN "InvalidRead"
    ELSE "nil"

\* extract without the type assertion on the Deleted slot.
extract_NoDeletedCheck(prev, root, rootRefsOk, failAt) ==
    IF extractRootChildren(root, rootRefsOk) # "nil"
        THEN Failed("InvalidRead")
    ELSE IF root[indexContent].kind # "ThreadPages" THEN Failed("InvalidRead")
    ELSE IF failAt = 1 THEN Failed("InvalidRead")
    ELSE IF root[indexThreadVotes].kind # "ThreadVotesPages"
        THEN Failed("InvalidRead")
    ELSE IF failAt = 2 THEN Failed("InvalidRead")
    ELSE IF root[indexPostVotes].kind # "PostVotesPages"
        THEN Failed("InvalidRead")
    ELSE IF failAt = 3 THEN Failed("InvalidRead")
    ELSE IF root[indexUserVotes].kind # "UserVotesPages"
        THEN Failed("InvalidRead")
    ELSE IF failAt = 4 THEN Failed("InvalidRead")
    ELSE [err |-> "nil",
          inst |-> [live |-> TRUE, pack |-> root,
                    tVotesStore |->
                        NewContentVotesStore(prev.pVotesStore,
                                             root[indexPostVotes].refs),
                    pVotesStore |-> NilStore,
                    gotStore |-> GotStoreAndChanges(prev, root).gotStore,
                    changes |-> GotStoreAndChanges(prev, root).changes]]

\* PackInstance.extract on a fresh instance whose prev is `prev` (NoInst
\* when nil).  failAt names the store constructor that fails, 0 for none:
\* 1 NewGotStore, 2 and 3 NewContentVotesStore, 4 NewUserVotesStore.
\* The result of the second NewContentVotesStore call (old store
\* prev.pVotesStore, pages pvPages.Posts) is assigned to p.tVotesStore,
\* over the thread-votes store; p.pVotesStore is never assigned.
extract(prev, root, rootRefsOk, failAt) ==
    IF extractRootChildren(root, rootRefsOk) # "nil"
        THEN Failed("InvalidRead")
    ELSE IF root[indexContent].kind # "ThreadPages" THEN Failed("InvalidRead")
    ELSE IF failAt = 1 THEN Failed("InvalidRead")
    ELSE IF root[indexDeleted].kind # "Deleted" THEN Failed("InvalidRead")
    ELSE IF root[indexThreadVotes].kind # "ThreadVotesPages"
        THEN Failed("InvalidRead")
    ELSE IF failAt = 2 THEN Failed("InvalidRead")
    ELSE IF root[indexPostVotes].kind # "PostVotesPages"
        THEN Failed("InvalidRead")
    ELSE IF failAt = 3 THEN Failed("InvalidRead")
    ELSE IF root[indexUserVotes].kind # "UserVotesPages"
        THEN Failed("InvalidRead")
    ELSE IF failAt = 4 THEN Failed("InvalidRead")
    ELSE [err |-> "nil",
          inst |-> [live |-> TRUE, pack |-> root,
                    tVotesStore |->
                        NewContentVotesStore(prev.pVotesStore,
                                             root[indexPostVotes].refs),
                    pVotesStore |-> NilStore,
                    gotStore |-> GotStoreAndChanges(prev, root).gotStore,
                    changes |-> GotStoreAndChanges(prev, root).changes]]

\* NewPackInstance(oldInstance, pack): (nil, e) when extract fails.
NewPackInstanceResult(old, root, rootRefsOk, failAt) ==
    extract(old, root, rootRefsOk, failAt)

\* p.pack.SetRefByIndex(i, pages)
SetRefByIndex(pack, i, refs) == [pack EXCEPT ![i].refs = refs]

\* AppendThreadVotesPage / AppendPostVotesPage on the store held in field
\* `store` and the root slot `idx`; readOk and writeOk are whether
\* RefByIndex and SetRefByIndex succeed.  Calling Get on a nil store
\* dereferences a nil pointer.
AppendVotesPage(p, store, idx, h, readOk, writeOk) ==
    IF store.nil THEN [err |-> "panic", pack |-> p.pack, store |-> store]
    ELSE IF StoreHas(store, h)
        THEN [err |-> "nil", pack |-> p.pack, store |-> store]
    ELSE IF ~readOk
        THEN [err |-> "InvalidRead", pack |-> p.pack, store |-> store]
    ELSE IF ~writeOk
        THEN [err |-> "WriteFailed", pack |-> p.pack, store |-> store]
    ELSE LET pages == Append(p.pack[idx].refs, h)
         IN [err |-> "nil",
             pack |-> SetRefByIndex(p.pack, idx, pages),
             store |-> StoreSet(store, h, VotesSummary(Len(pages) - 1, h))]

NoPRet == [op |-> "none", h |-> "none", err |-> "none", returned |-> FALSE,
           hadPrev |-> FALSE, existed |-> FALSE, changed |-> FALSE]

\* The goroutines that call Do with an append, and a caller that has not
\* called yet.
Callers == {"c1", "c2"}
AppendOps == {"AppendThreadVotesPage", "AppendPostVotesPage"}
NoCall == [pc |-> "idle", op |-> "none", h |-> "none", err |-> "none",
           pages |-> <<>>]

\* The store and the root slot an append works on.
StoreOf(p, op) ==
    IF op = "AppendThreadVotesPage" THEN p.tVotesStore ELSE p.pVotesStore
IndexOf(op) ==
    IF op = "AppendThreadVotesPage" THEN indexThreadVotes ELSE indexPostVotes

\* Do without packMux: the action runs whoever else is running one.
DoCanLock_NoMutex(owner) == TRUE

\* Do: p.packMux.Lock() returns when the mutex is free.
DoCanLock(owner) == owner = "free"

\* The first half of an append: the look-up in the compiled store and the
\* read of the page list; next is "set" when the append goes on, "done"
\* when it returns (or panics on the nil store) here.
AppendRead(p, op, h, readOk) ==
    IF StoreOf(p, op).nil THEN [next |-> "done", err |-> "panic", pages |-> <<>>]
    ELSE IF StoreHas(StoreOf(p, op), h)
        THEN [next |-> "done", err |-> "nil", pages |-> <<>>]
    ELSE IF ~readOk
        THEN [next |-> "done", err |-> "InvalidRead", pages |-> <<>>]
    ELSE [next |-> "set", err |-> "none", pages |-> p.pack[IndexOf(op)].refs]

\* The second half: the page appended to the list read, the list saved to
\* the pack and the summary saved to the compiled store.
AppendWrite(p, op, h, pages, writeOk) ==
    IF ~writeOk THEN [err |-> "WriteFailed", p |-> p]
    ELSE LET saved == Append(pages, h)
             st == StoreSet(StoreOf(p, op), h, VotesSummary(Len(saved) - 1, h))
             p1 == [p EXCEPT !.pack = SetRefByIndex(p.pack, IndexOf(op), saved)]
         IN [err |-> "nil",
             p |-> IF op = "AppendThreadVotesPage"
                   THEN [p1 EXCEPT !.tVotesStore = st]
                   ELSE [p1 EXCEPT !.pVotesStore = st]]

PackIdle ==
    /\ fetched = <<>>
    /\ inst = NoInst
    /\ pret = NoPRet
    /\ packMux = "free"
    /\ app = [c \in Callers |-> NoCall]

\* The holder of the instance receives a new pack of the board.
Fetch ==
    /\ pret.op # "none"
    /\ fetched' \in Roots
    /\ pret' = NoPRet
    /\ UNCHANGED <<inst, packMux, app, compilerVars, viewerVars, contentVars>>

\* NewPackInstance(oldInstance, pack) on the pack received, with the
\* instance in use (or nil) as oldInstance; a new instance replaces the
\* instance in use.
NewPackInstance ==
    /\ pret.op = "none"
    /\ \E usePrev \in BOOLEAN, rootRefsOk \in BOOLEAN, failAt \in 0..4 :
         LET old == IF usePrev THEN inst ELSE NoInst
             r == NewPackInstanceResult(old, fetched, rootRefsOk, failAt)
         IN /\ inst' = IF r.err = "nil" THEN r.inst ELSE inst
            /\ pret' = [NoPRet EXCEPT !.op = "NewPackInstance",
                                      !.err = r.err,
                                      !.returned = r.inst.live,
                                      !.hadPrev = old.live]
    /\ UNCHANGED <<fetched, packMux, app, compilerVars, viewerVars,
                   contentVars>>

AppendThreadVotesPage ==
    /\ inst.live
    /\ \E h \in Hashes, readOk \in BOOLEAN, writeOk \in BOOLEAN :
         LET r == AppendVotesPage(inst, inst.tVotesStore, indexThreadVotes,
                                  h, readOk, writeOk)
         IN /\ inst' = [inst EXCEPT !.pack = r.pack, !.tVotesStore = r.store]
            /\ pret' = [NoPRet EXCEPT
                  !.op = "AppendThreadVotesPage", !.h = h, !.err = r.err,
                  !.existed = h \in Range(inst.pack[indexThreadVotes].refs),
                  !.changed = (r.pack # inst.pack \/ r.store # inst.tVotesStore)]
    /\ UNCHANGED <<fetched, packMux, app, compilerVars, viewerVars,
                   contentVars>>

AppendPostVotesPage ==
    /\ inst.live
    /\ \E h \in Hashes, readOk \in BOOLEAN, writeOk \in BOOLEAN :
         LET r == AppendVotesPage(inst, inst.pVotesStore, indexPostVotes,
                                  h, readOk, writeOk)
         IN /\ inst' = [inst EXCEPT !.pack = r.pack, !.pVotesStore = r.store]
            /\ pret' = [NoPRet EXCEPT
                  !.op = "AppendPostVotesPage", !.h = h, !.err = r.err,
                  !.existed = h \in Range(inst.pack[indexPostVotes].refs),
                  !.changed = (r.pack # inst.pack \/ r.store # inst.pVotesStore)]
    /\ UNCHANGED <<fetched, packMux, app, compilerVars, viewerVars,
                   contentVars>>

\* The holder of the instance receives a pack with threads, posts and
\* deletions.
FetchContent ==
    /\ pret.op # "none"
    /\ fetched' \in ContentRoots
    /\ pret' = NoPRet
    /\ UNCHANGED <<inst, packMux, app, compilerVars, viewerVars, contentVars>>

\* A caller runs p.Do(append of h): Do takes the mutex.
Do_Lock ==
    /\ inst.live
    /\ \E c \in Callers, op \in AppendOps, h \in Hashes :
         /\ app[c].pc = "idle"
         /\ DoCanLock(packMux)
         /\ packMux' = c
         /\ app' = [app EXCEPT ![c] = [NoCall EXCEPT !.pc = "get", !.op = op,
                                                     !.h = h]]
    /\ UNCHANGED <<fetched, inst, pret, compilerVars, viewerVars, contentVars>>

\* The append looks h up and reads the page list; when it returns here,
\* Do's deferred Unlock runs (also when the nil store makes it panic).
Append_Get ==
    /\ \E c \in Callers, readOk \in BOOLEAN :
         /\ app[c].pc = "get"
         /\ LET r == AppendRead(inst, app[c].op, app[c].h, readOk)
            IN /\ app' = [app EXCEPT ![c].pc = r.next, ![c].err = r.err,
                                     ![c].pages = r.pages]
               /\ packMux' = IF r.next = "done" THEN "free" ELSE packMux
    /\ UNCHANGED <<fetched, inst, pret, compilerVars, viewerVars, contentVars>>

\* The append saves the list and the summary and returns; Do unlocks.
Append_Set ==
    /\ \E c \in Callers, writeOk \in BOOLEAN :
         /\ app[c].pc = "set"
         /\ LET r == AppendWrite(inst, app[c].op, app[c].h, app[c].pages,
                                 writeOk)
            IN /\ inst' = r.p
               /\ app' = [app EXCEPT ![c].pc = "done", ![c].err = r.err,
                                     ![c].pages = <<>>]
         /\ packMux' = "free"
    /\ UNCHANGED <<fetched, pret, compilerVars, viewerVars, contentVars>>

NextAppend ==
    \/ NewPackInstance
    \/ Do_Lock
    \/ Append_Get
    \/ Append_Set

NextChanges ==
    \/ FetchContent
    \/ NewPackInstance

NextPack ==
    \/ Fetch
    \/ NewPackInstance
    \/ AppendThreadVotesPage
    \/ AppendPostVotesPage

(***************************************************************************)
(* VIEWER                                                                  *)
(***************************************************************************)
Users == {"u1", "u2"}
Values == {-1, 0, 1}
Tags == {"trust", "spam", "block"}

\* NewProfile(): the six relationship sets, all empty.
NewProfile ==
    [Trusted |-> {}, TrustedBy |-> {},
     MarkedAsSpam |-> {}, MarkedAsSpamBy |-> {},
     Blocked |-> {}, BlockedBy |-> {}]

\* Profile.ClearVotesFor(upk): forget what this user voted about upk.
ClearVotesFor(prof, upk) ==
    [prof EXCEPT !.Trusted = @ \ {upk},
                 !.MarkedAsSpam = @ \ {upk},
                 !.Blocked = @ \ {upk}]

\* Profile.ClearVotesBy(upk): forget what upk voted about this user.
ClearVotesBy(prof, upk) ==
    [prof EXCEPT !.TrustedBy = @ \ {upk},
                 !.MarkedAsSpamBy = @ \ {upk},
                 !.BlockedBy = @ \ {upk}]

\* Append of the keyed pagination index (paginatedtypes.NewMapped).
MappedAppend(list, key) ==
    IF key \in Range(list) THEN list ELSE Append(list, key)

\* NewIndexer() and NewContainer(), as far as users are concerned.
EmptyViewer == [Users |-> <<>>, profiles |-> <<>>]

\* Container.GetProfile(upk): the profiles with upk's created if missing.
GetProfile(profiles, upk) ==
    IF upk \in DOMAIN profiles THEN profiles
    ELSE [u \in (DOMAIN profiles) \cup {upk} |->
            IF u = upk THEN NewProfile ELSE profiles[u]]

\* Viewer.ensureUser(upk) without the creation of the profile.
ensureUser_IndexOnly(v, upk) ==
    [Users |-> MappedAppend(v.Users, upk), profiles |-> v.profiles]

\* Viewer.ensureUser(upk)
ensureUser(v, upk) ==
    [Users |-> MappedAppend(v.Users, upk),
     profiles |-> GetProfile(v.profiles, upk)]

\* Indexer.EnsureUsersOfUserVoteBody(body)
EnsureUsersOfUserVoteBody(list, b) ==
    MappedAppend(MappedAppend(list, b.Creator), b.OfUser)

Body(c, t, value, tags) ==
    [Creator |-> c, OfUser |-> t, Value |-> value, Tags |-> tags]

HasTag(b, tag) == tag \in b.Tags

\* The profiles after creatorProfile.X[b.OfUser] = struct{}{} and
\* ofUserProfile.XBy[b.Creator] = struct{}{}.
SetRelation(profiles, b, rel, relBy) ==
    LET p1 == [profiles EXCEPT ![b.Creator][rel] = @ \cup {b.OfUser}]
    IN [p1 EXCEPT ![b.OfUser][relBy] = @ \cup {b.Creator}]

\* The two lookups with ClearVotesFor alone, without ClearVotesBy.
ClearedProfiles_ForOnly(v, b) ==
    LET p0 == GetProfile(GetProfile(v.profiles, b.Creator), b.OfUser)
    IN [p0 EXCEPT ![b.Creator] = ClearVotesFor(@, b.OfUser)]

\* The profiles after the two lookups and the two Clear calls.
ClearedProfiles(v, b) ==
    LET p0 == GetProfile(GetProfile(v.profiles, b.Creator), b.OfUser)
        p1 == [p0 EXCEPT ![b.Creator] = ClearVotesFor(@, b.OfUser)]
    IN [p1 EXCEPT ![b.OfUser] = ClearVotesBy(@, b.Creator)]

\* The switch of processUserVote with value 0 falling into the default case.
VoteSwitch_ZeroIsDefault(v, p, b) ==
    IF b.Value = 1 /\ HasTag(b, "trust")
    THEN [Users |-> EnsureUsersOfUserVoteBody(v.Users, b),
          profiles |-> SetRelation(p, b, "Trusted", "TrustedBy")]
    ELSE IF b.Value = -1 THEN
        LET v1 == IF HasTag(b, "spam")
                  THEN [Users |-> EnsureUsersOfUserVoteBody(v.Users, b),
                        profiles |-> SetRelation(p, b, "MarkedAsSpam",
                                                 "MarkedAsSpamBy")]
                  ELSE [Users |-> v.Users, profiles |-> p]
        IN IF HasTag(b, "block")
           THEN [Users |-> EnsureUsersOfUserVoteBody(v1.Users, b),
                 profiles |-> SetRelation(v1.profiles, b, "Blocked",
                                          "BlockedBy")]
           ELSE v1
    ELSE [Users |-> v.Users, profiles |-> p]

\* The switch of processUserVote on profiles p.
VoteSwitch(v, p, b) ==
    IF b.Value = 1 THEN
        IF HasTag(b, "trust")
        THEN [Users |-> EnsureUsersOfUserVoteBody(v.Users, b),
              profiles |-> SetRelation(p, b, "Trusted", "TrustedBy")]
        ELSE [Users |-> v.Users, profiles |-> p]
    ELSE IF b.Value = -1 THEN
        LET v1 == IF HasTag(b, "spam")
                  THEN [Users |-> EnsureUsersOfUserVoteBody(v.Users, b),
                        profiles |-> SetRelation(p, b, "MarkedAsSpam",
                                                 "MarkedAsSpamBy")]
                  ELSE [Users |-> v.Users, profiles |-> p]
        IN IF HasTag(b, "block")
           THEN [Users |-> EnsureUsersOfUserVoteBody(v1.Users, b),
                 profiles |-> SetRelation(v1.profiles, b, "Blocked",
                                          "BlockedBy")]
           ELSE v1
    ELSE IF b.Value = 0 THEN
        [Users |-> EnsureUsersOfUserVoteBody(v.Users, b), profiles |-> p]
    ELSE [Users |-> v.Users, profiles |-> p]

\* processUserVote without the ClearVotesFor / ClearVotesBy calls.
processUserVote_NoClear(v, b) ==
    VoteSwitch(v, GetProfile(GetProfile(v.profiles, b.Creator), b.OfUser), b)

\* processUserVote looking at the tags alone, whatever the value.
processUserVote_TagsOnly(v, b) ==
    LET p == ClearedProfiles(v, b)
        v1 == VoteSwitch(v, p, [b EXCEPT !.Value = 1])
    IN VoteSwitch(v1, v1.profiles, [b EXCEPT !.Value = -1])

\* Viewer.processUserVote(c, b, h)
processUserVote(v, b) == VoteSwitch(v, ClearedProfiles(v, b), b)

NoVote == [set |-> FALSE, body |-> Body("none", "none", 0, {}),
           wasTrusted |-> FALSE]

\* What the creator's profile says about the target.
Relations(profiles, c, t) ==
    [trusted |-> c \in DOMAIN profiles /\ t \in profiles[c].Trusted,
     spam |-> c \in DOMAIN profiles /\ t \in profiles[c].MarkedAsSpam,
     blocked |-> c \in DOMAIN profiles /\ t \in profiles[c].Blocked]

\* What the target's profile says about the creator.
RelationsBy(profiles, c, t) ==
    [trusted |-> t \in DOMAIN profiles /\ c \in profiles[t].TrustedBy,
     spam |-> t \in DOMAIN profiles /\ c \in profiles[t].MarkedAsSpamBy,
     blocked |-> t \in DOMAIN profiles /\ c \in profiles[t].BlockedBy]

ViewerIdle ==
    /\ viewer = EmptyViewer
    /\ uvLast = NoVote

\* One user-vote as NewViewer's walk over the submissions and Update's loop
\* over the change set handle it: ensureUser(creator), then processVote,
\* which hands a user-vote to processUserVote.
UserVote ==
    /\ \E c \in Users, t \in Users, value \in Values, tags \in SUBSET Tags :
         LET b == Body(c, t, value, tags)
         IN /\ viewer' = processUserVote(ensureUser(viewer, c), b)
            /\ uvLast' = [set |-> TRUE, body |-> b,
                          wasTrusted |->
                              Relations(viewer.profiles, c, t).trusted]
    /\ UNCHANGED <<compilerVars, packVars, contentVars>>

NextViewer == UserVote

(***************************************************************************)
(* VIEWER: content, votes, Update and the read queries                     *)
(***************************************************************************)
MaxInit == 2
MaxNew == 2
MaxUpdates == 1

\* The board whose snapshots the Viewer follows, and the hashes of the
\* versions of its board item.
BoardPK == "pk1"
BoardHashes == {"b1", "b2"}

\* An object.Content: its header's hash and the fields of its body.
Content(type, hash, creator, ofBoard, ofThread, ofPost, ofUser, value, tags) ==
    [Type |-> type, Hash |-> hash, Creator |-> creator, OfBoard |-> ofBoard,
     OfThread |-> ofThread, OfPost |-> ofPost, OfUser |-> ofUser,
     Value |-> value, Tags |-> tags]

BoardItem(h) == Content("board", h, "u1", BoardPK, "", "", "", 0, {})

\* The content users submit to the board: a thread, a post in it, a reply to
\* that post, a vote on the thread, a vote on the post, a user-vote.
T1 == Content("thread", "t1", "u1", BoardPK, "", "", "", 0, {})
P1 == Content("post", "p1", "u2", BoardPK, "t1", "", "", 0, {})
P2 == Content("post", "p2", "u1", BoardPK, "t1", "p1", "", 0, {})
TV == Content("thread_vote", "tv", "u2", BoardPK, "t1", "", "", 1, {})
PV == Content("post_vote", "pv", "u1", BoardPK, "", "p1", "", -1, {})
UV == Content("user_vote", "uv", "u2", BoardPK, "", "", "u1", 1, {"trust"})

Items == {T1, P1, P2, TV, PV, UV}

ContentHashes == BoardHashes \cup {"t1", "p1", "p2"}

IsVote(c) == c.Type \in {"thread_vote", "post_vote", "user_vote"}

\* ---- Snapshots: the board item, the thread pages (a thread and its
\* ---- posts), and the users' submissions in the order the walk of the
\* ---- users page meets them (user after user).
EmptySnapshot(b) == [board |-> b, pages |-> <<>>, subs |-> <<>>]

PageItems(pg) == {pg.thread} \cup Range(pg.posts)

SnapshotItems(sn) ==
    UNION {PageItems(sn.pages[i]) : i \in 1..Len(sn.pages)} \cup Range(sn.subs)

HasPage(sn, tHash) == \E i \in 1..Len(sn.pages) : sn.pages[i].thread.Hash = tHash

\* A post can only be stored in the page of its thread.
CanAdd(sn, c) ==
    /\ c \notin SnapshotItems(sn)
    /\ c.Type = "post" => HasPage(sn, c.OfThread)

\* The submissions with c added after the last submission of its creator.
InsertSubmission(subs, c) ==
    LET mine == {i \in 1..Len(subs) : subs[i].Creator = c.Creator}
        k == IF mine = {} THEN Len(subs)
             ELSE CHOOSE i \in mine : \A j \in mine : j <= i
    IN SubSeq(subs, 1, k) \o <<c>> \o SubSeq(subs, k + 1, Len(subs))

\* The snapshot that adds c: a thread gets a new page after the others, a
\* post goes to the end of its thread's page, a vote to its creator's
\* submissions.
AddToSnapshot(sn, c) ==
    IF c.Type = "thread"
    THEN [sn EXCEPT !.pages = Append(sn.pages, [thread |-> c, posts |-> <<>>])]
    ELSE IF c.Type = "post"
    THEN [sn EXCEPT !.pages =
            [i \in 1..Len(sn.pages) |->
                IF sn.pages[i].thread.Hash = c.OfThread
                THEN [thread |-> sn.pages[i].thread,
                      posts |-> Append(sn.pages[i].posts, c)]
                ELSE sn.pages[i]]]
    ELSE [sn EXCEPT !.subs = InsertSubmission(sn.subs, c)]

RECURSIVE AddAll(_, _)
AddAll(sn, q) ==
    IF q = <<>> THEN sn ELSE AddAll(AddToSnapshot(sn, Head(q)), Tail(q))

\* The snapshots of the first version of the board item that hold at most
\* n items.
RECURSIVE SnapshotsUpTo(_)
SnapshotsUpTo(n) ==
    IF n = 0 THEN {EmptySnapshot("b1")}
    ELSE LET prev == SnapshotsUpTo(n - 1)
         IN prev \cup
            {AddToSnapshot(x[1], x[2]) :
                x \in {y \in prev \X Items : CanAdd(y[1], y[2])}}

\* The items of q of the types in `types`, in the order of q.
RECURSIVE SelectTypes(_, _)
SelectTypes(q, types) ==
    IF q = <<>> THEN <<>>
    ELSE IF Head(q).Type \in types
         THEN <<Head(q)>> \o SelectTypes(Tail(q), types)
         ELSE SelectTypes(Tail(q), types)

\* The order in which the items of a change set entered the snapshot:
\* threads before the posts in them, content before the votes.
TreeOrder(q) ==
    SelectTypes(q, {"thread"}) \o SelectTypes(q, {"post"})
        \o SelectTypes(q, {"thread_vote", "post_vote", "user_vote"})

\* Sequences of distinct items of length at most n.
RECURSIVE DistinctItems(_)
DistinctItems(n) ==
    IF n = 0 THEN {<<>>}
    ELSE LET shorter == DistinctItems(n - 1)
             longer == {Append(q, c) : q \in shorter, c \in Items}
         IN shorter \cup
            {q \in longer : \A i, j \in 1..Len(q) : q[i] = q[j] => i = j}

\* The lists of new content a change set from sn can hold, in any order:
\* up to n distinct items that sn lacks, a post only with its thread.
ChangeLists(sn, n) ==
    {q \in DistinctItems(n) :
        /\ Range(q) \cap SnapshotItems(sn) = {}
        /\ \A i \in 1..Len(q) :
             q[i].Type = "post" =>
                \/ HasPage(sn, q[i].OfThread)
                \/ \E j \in 1..Len(q) :
                      /\ q[j].Type = "thread"
                      /\ q[j].Hash = q[i].OfThread}

\* ---- The Viewer: Indexer (Board, Threads, PostsOfThread, Users) and
\* ---- Container (content, votes, profiles).
NoViewer ==
    [nil |-> TRUE, pk |-> "", Board |-> "", Threads |-> <<>>,
     PostsOfThread |-> <<>>, Users |-> <<>>,
     content |-> <<>>, votes |-> <<>>, profiles |-> <<>>]

\* &Viewer{pk: pack.Root().Pub, i: NewIndexer(), c: NewContainer()}
NewIndexerAndContainer(pk) == [NoViewer EXCEPT !.nil = FALSE, !.pk = pk]

\* delete(m, k)
MapDelete(m, k) == [x \in (DOMAIN m) \ {k} |-> m[x]]

\* A nil *VoteRepView, and a nil *object.ContentRep.
NoView == [Ref |-> "", Up |-> 0, Down |-> 0, Voted |-> FALSE]
NilRep == [Type |-> "nil", Hash |-> "", Creator |-> "", PubKey |-> "",
           Votes |-> NoView]

\* Content.ToRep(): the output representation of a content item.
ToRep(c) ==
    [Type |-> c.Type, Hash |-> c.Hash, Creator |-> c.Creator, PubKey |-> "",
     Votes |-> NoView]

\* new(VotesRep).Fill(cType, cHash) and VotesRep.Add(c)
Fill(cType, cHash) == [Type |-> cType, Ref |-> cHash, Votes |-> {}]
VotesRepAdd(rep, c) ==
    [rep EXCEPT !.Votes = @ \cup {[Creator |-> c.Creator, Value |-> c.Value]}]

\* VotesRep.View(perspective): the counts, and the perspective's own vote.
View(rep, perspective) ==
    [Ref |-> rep.Ref,
     Up |-> Cardinality({x \in rep.Votes : x.Value = 1}),
     Down |-> Cardinality({x \in rep.Votes : x.Value = -1}),
     Voted |-> \E x \in rep.Votes : x.Creator = perspective]

\* &VoteRepView{Ref: hash}
EmptyView(hash) == [Ref |-> hash, Up |-> 0, Down |-> 0, Voted |-> FALSE]

\* Append of the plain pagination index (paginatedtypes.NewSimple).
SimpleAppend(list, key) == Append(list, key)

\* Paginated.Get(&PaginatedInput{StartIndex, PageSize})
PaginatedGet(list, start, size) ==
    IF start > Len(list) THEN [err |-> "OutOfRange", data |-> <<>>]
    ELSE [err |-> "nil",
          data |-> SubSeq(list, start + 1,
                          IF start + size < Len(list) THEN start + size
                          ELSE Len(list))]

\* checkBoardRef(expected, body, what)
checkBoardRef(expected, b) ==
    IF b.OfBoard # expected THEN "InvalidRead" ELSE "nil"

\* checkThreadRef(expected, body, what)
checkThreadRef(expected, b) ==
    IF b.OfThread # expected THEN "InvalidRead" ELSE "nil"

\* Viewer.setBoard without the delete of the entry at the old board key.
setBoard_NoDelete(v, bc) ==
    [v EXCEPT !.Board = bc.Hash,
              !.content = MapSet(v.content, bc.Hash,
                                 [ToRep(bc) EXCEPT !.PubKey = v.pk])]

\* Viewer.setBoard(bc)
setBoard(v, bc) ==
    [v EXCEPT !.Board = bc.Hash,
              !.content = MapSet(MapDelete(v.content, v.Board), bc.Hash,
                                 [ToRep(bc) EXCEPT !.PubKey = v.pk])]

\* Viewer.ensureUser(upk) on the whole Viewer.
ensureUserOf(v, upk) ==
    LET r == ensureUser([Users |-> v.Users, profiles |-> v.profiles], upk)
    IN [v EXCEPT !.Users = r.Users, !.profiles = r.profiles]

\* Viewer.addThread(tc, b, h): the error and the Viewer afterwards.
addThread(v, tc) ==
    IF checkBoardRef(v.pk, tc) # "nil"
    THEN [err |-> checkBoardRef(v.pk, tc), v |-> v]
    ELSE [err |-> "nil",
          v |-> [v EXCEPT
                   !.Threads = SimpleAppend(v.Threads, tc.Hash),
                   !.content = MapSet(v.content, tc.Hash, ToRep(tc)),
                   !.PostsOfThread = MapSet(v.PostsOfThread, tc.Hash, <<>>)]]

\* Viewer.addPost(tHash, pc, b, h): the error and the Viewer afterwards.
addPost(v, tHash, pc) ==
    IF checkBoardRef(v.pk, pc) # "nil"
    THEN [err |-> checkBoardRef(v.pk, pc), v |-> v]
    ELSE IF checkThreadRef(tHash, pc) # "nil"
    THEN [err |-> checkThreadRef(tHash, pc), v |-> v]
    ELSE IF tHash \notin DOMAIN v.PostsOfThread
    THEN [err |-> "Internal", v |-> v]
    ELSE LET l1 == MapSet(v.PostsOfThread, tHash,
                          MappedAppend(v.PostsOfThread[tHash], pc.Hash))
             pList == IF pc.OfPost \in DOMAIN l1 THEN l1[pc.OfPost] ELSE <<>>
             l2 == IF pc.OfPost # ""
                   THEN MapSet(l1, pc.OfPost, MappedAppend(pList, pc.Hash))
                   ELSE l1
         IN [err |-> "nil",
             v |-> [v EXCEPT !.PostsOfThread = l2,
                             !.content = MapSet(v.content, pc.Hash, ToRep(pc))]]

\* The hash a thread-vote or post-vote is about.
VoteTarget(c) == IF c.Type = "thread_vote" THEN c.OfThread ELSE c.OfPost

\* Viewer.processVote without the test of v.c.content[cHash].
processVote_NoTargetCheck(v, c) ==
    IF c.Type = "user_vote"
    THEN LET r == processUserVote([Users |-> v.Users,
                                   profiles |-> v.profiles], c)
         IN [v EXCEPT !.Users = r.Users, !.profiles = r.profiles]
    ELSE IF c.Type \notin {"thread_vote", "post_vote"} THEN v
    ELSE LET cHash == VoteTarget(c)
             voteRep == IF cHash \in DOMAIN v.votes THEN v.votes[cHash]
                        ELSE Fill(c.Type, cHash)
         IN [v EXCEPT !.votes = MapSet(v.votes, cHash, VotesRepAdd(voteRep, c))]

\* Viewer.processVote(c, b, h); it returns nil on every path.
processVote(v, c) ==
    IF c.Type = "user_vote"
    THEN LET r == processUserVote([Users |-> v.Users,
                                   profiles |-> v.profiles], c)
         IN [v EXCEPT !.Users = r.Users, !.profiles = r.profiles]
    ELSE IF c.Type \notin {"thread_vote", "post_vote"} THEN v
    ELSE LET cHash == VoteTarget(c)
         IN IF cHash \notin DOMAIN v.content THEN v
            ELSE LET voteRep == IF cHash \in DOMAIN v.votes
                                THEN v.votes[cHash]
                                ELSE Fill(c.Type, cHash)
                 IN [v EXCEPT !.votes = MapSet(v.votes, cHash,
                                               VotesRepAdd(voteRep, c))]

\* The callback NewViewer hands to RangePosts, over the posts of a page.
RECURSIVE RangePosts(_, _, _)
RangePosts(v, tHash, posts) ==
    IF posts = <<>> THEN [err |-> "nil", v |-> v]
    ELSE LET r == addPost(ensureUserOf(v, Head(posts).Creator), tHash,
                          Head(posts))
         IN IF r.err # "nil" THEN r ELSE RangePosts(r.v, tHash, Tail(posts))

\* The callback NewViewer hands to RangeThreadPages, over the pages.
RECURSIVE RangeThreadPages(_, _)
RangeThreadPages(v, pages) ==
    IF pages = <<>> THEN [err |-> "nil", v |-> v]
    ELSE LET tp == Head(pages)
             r == addThread(ensureUserOf(v, tp.thread.Creator), tp.thread)
         IN IF r.err # "nil" THEN r
            ELSE LET r2 == RangePosts(r.v, tp.thread.Hash, tp.posts)
                 IN IF r2.err # "nil" THEN r2
                    ELSE RangeThreadPages(r2.v, Tail(pages))

\* The callback NewViewer hands to RangeUserProfiles / RangeSubmissions.
RECURSIVE RangeSubmissions(_, _)
RangeSubmissions(v, subs) ==
    IF subs = <<>> THEN v
    ELSE RangeSubmissions(
            processVote(ensureUserOf(v, Head(subs).Creator), Head(subs)),
            Tail(subs))

\* NewViewer(pack): (nil, e) when reading the pages or the board item fails
\* (readOk) or a thread or post is misplaced, the Viewer otherwise.
NewViewerResult(sn, readOk) ==
    IF ~readOk THEN [err |-> "ReadFailed", v |-> NoViewer]
    ELSE LET v0 == setBoard(NewIndexerAndContainer(BoardPK),
                            BoardItem(sn.board))
             r == RangeThreadPages(v0, sn.pages)
         IN IF r.err # "nil" THEN [err |-> r.err, v |-> NoViewer]
            ELSE [err |-> "nil", v |-> RangeSubmissions(r.v, sn.subs)]

\* The body of Update's loop over headers.GetChanges().New for one item:
\* the error that makes Update return, and the Viewer afterwards.
UpdateItem(v, c) ==
    LET v1 == ensureUserOf(v, c.Creator)
    IN IF c.Type = "thread" THEN addThread(v1, c)
       ELSE IF c.Type = "post" THEN addPost(v1, c.OfThread, c)
       ELSE IF IsVote(c) THEN [err |-> "nil", v |-> processVote(v1, c)]
       ELSE [err |-> "nil", v |-> v1]

\* ---- Read queries: the returned error and value, and the Container's
\* ---- content afterwards (the page queries write the vote view into the
\* ---- representations the Container holds).
Lookup(content, h) == IF h \in DOMAIN content THEN content[h] ELSE NilRep

QueryOut(err, out, content) == [err |-> err, out |-> out, content |-> content]

\* Viewer.GetBoard()
ViewerGetBoardResult(v) ==
    IF v.nil THEN QueryOut("ViewerNotInitialized", NilRep, v.content)
    ELSE QueryOut("nil", Lookup(v.content, v.Board), v.content)

\* GetVotes answering NotFound whenever the hash has no vote aggregate.
GetVotesResult_VotesOnly(v, perspective, h) ==
    IF v.nil THEN QueryOut("ViewerNotInitialized", NoView, v.content)
    ELSE IF h \in DOMAIN v.votes
    THEN QueryOut("nil", View(v.votes[h], perspective), v.content)
    ELSE QueryOut("NotFound", NoView, v.content)

\* Viewer.GetVotes(in)
GetVotesResult(v, perspective, h) ==
    IF v.nil THEN QueryOut("ViewerNotInitialized", NoView, v.content)
    ELSE IF h \in DOMAIN v.votes
    THEN QueryOut("nil", View(v.votes[h], perspective), v.content)
    ELSE IF h \in DOMAIN v.content
    THEN QueryOut("nil", EmptyView(h), v.content)
    ELSE QueryOut("NotFound", NoView, v.content)

\* Viewer.GetUserProfile(in): the error and the profile view (the six sets
\* of the profile).
GetUserProfileResult(v, upk) ==
    IF v.nil THEN [err |-> "ViewerNotInitialized", out |-> NewProfile]
    ELSE IF upk \notin Range(v.Users)
    THEN [err |-> "NotFound", out |-> NewProfile]
    ELSE IF upk \notin DOMAIN v.profiles
    THEN [err |-> "Internal", out |-> NewProfile]
    ELSE [err |-> "nil", out |-> v.profiles[upk]]

\* rep.Votes = votes.View(perspective) for the hashes of hs that have a
\* vote aggregate: the content map after these assignments.
RECURSIVE Annotate(_, _, _, _)
Annotate(content, votes, perspective, hs) ==
    IF hs = <<>> THEN content
    ELSE LET h == Head(hs)
             c1 == IF h \in DOMAIN votes /\ h \in DOMAIN content
                   THEN [content EXCEPT
                           ![h].Votes = View(votes[h], perspective)]
                   ELSE content
         IN Annotate(c1, votes, perspective, Tail(hs))

NoPage == [Board |-> NilRep, Thread |-> NilRep, Posts |-> <<>>]

\* Viewer.GetThreadPage(in).  A hash that has content but no entry in
\* PostsOfThread makes the call of Get on the nil list panic, after the
\* vote view of the content has been written.
GetThreadPageResult(v, perspective, h, start, size) ==
    IF v.nil THEN QueryOut("ViewerNotInitialized", NoPage, v.content)
    ELSE IF h \notin DOMAIN v.content
    THEN QueryOut("NotFound", NoPage, v.content)
    ELSE LET c1 == Annotate(v.content, v.votes, perspective, <<h>>)
         IN IF h \notin DOMAIN v.PostsOfThread
            THEN QueryOut("panic", NoPage, c1)
            ELSE LET pHashes == PaginatedGet(v.PostsOfThread[h], start, size)
                     c2 == Annotate(c1, v.votes, perspective, pHashes.data)
                 IN IF pHashes.err # "nil"
                    THEN QueryOut(pHashes.err, NoPage, c1)
                    ELSE QueryOut("nil",
                            [Board |-> Lookup(c2, v.Board),
                             Thread |-> c2[h],
                             Posts |-> [i \in 1..Len(pHashes.data) |->
                                          Lookup(c2, pHashes.data[i])]],
                            c2)

\* The Viewer without the vote views the page queries have written.
WithoutViews(v) ==
    [v EXCEPT !.content = [h \in DOMAIN v.content |->
                             [v.content[h] EXCEPT !.Votes = NoView]]]

NoUpdate == [pc |-> "idle", new |-> <<>>, readOk |-> TRUE, err |-> "none",
             n |-> 0, sync |-> FALSE]

NoQuery == [op |-> "none", h |-> "", perspective |-> "", err |-> "none",
            out |-> NilRep]

ContentIdle ==
    /\ snapshot = EmptySnapshot("b1")
    /\ view = NoViewer
    /\ vmux = "free"
    /\ upd = NoUpdate
    /\ qret = NoQuery
    /\ stable = NoViewer

\* NewViewer(pack) on the latest snapshot.
NewViewer ==
    /\ view.nil
    /\ upd.pc = "idle"
    /\ \E readOk \in BOOLEAN :
         LET r == NewViewerResult(snapshot, readOk)
         IN /\ view' = r.v
            /\ stable' = r.v
            /\ upd' = [NoUpdate EXCEPT !.err = r.err]
    /\ qret' = NoQuery
    /\ UNCHANGED <<snapshot, vmux, compilerVars, packVars, viewerVars>>

\* Update on a nil *Viewer returns ErrViewerNotInitialized.
Update_Nil ==
    /\ view.nil
    /\ upd.pc = "idle"
    /\ upd.err # "ViewerNotInitialized"
    /\ upd' = [NoUpdate EXCEPT !.err = "ViewerNotInitialized"]
    /\ qret' = NoQuery
    /\ UNCHANGED <<snapshot, view, vmux, stable, compilerVars, packVars,
                   viewerVars>>

\* Update(pack, headers) is called with the pack of a new snapshot and the
\* change set from the previous one (its new list in any order):
\* defer v.lock()().
Update_Lock ==
    /\ ~view.nil
    /\ vmux = "free"
    /\ upd.pc = "idle"
    /\ upd.n < MaxUpdates
    /\ \E b \in BoardHashes, new \in ChangeLists(snapshot, MaxNew),
          readOk \in BOOLEAN :
         /\ snapshot' = [AddAll(snapshot, TreeOrder(new)) EXCEPT !.board = b]
         /\ upd' = [pc |-> "locked", new |-> new, readOk |-> readOk,
                    err |-> "none", n |-> upd.n + 1,
                    sync |-> WithoutViews(view)
                               = NewViewerResult(snapshot, TRUE).v]
    /\ vmux' = "update"
    /\ qret' = NoQuery
    /\ UNCHANGED <<view, stable, compilerVars, packVars, viewerVars>>

\* Update: object.GetPages and pages.BoardPage.GetBoard (return e when one
\* fails), then v.setBoard(board).
Update_SetBoard ==
    /\ upd.pc = "locked"
    /\ IF upd.readOk
       THEN /\ view' = setBoard(view, BoardItem(snapshot.board))
            /\ upd' = [upd EXCEPT !.pc = "loop"]
            /\ UNCHANGED vmux
       ELSE /\ upd' = [upd EXCEPT !.pc = "idle", !.new = <<>>,
                                  !.readOk = TRUE, !.err = "ReadFailed"]
            /\ vmux' = "free"
            /\ UNCHANGED view
    /\ UNCHANGED <<snapshot, qret, stable, compilerVars, packVars, viewerVars>>

\* Update: one round of the loop over headers.GetChanges().New; an error
\* of addThread or addPost makes Update return it (and unlock).
Update_Item ==
    /\ upd.pc = "loop"
    /\ upd.new # <<>>
    /\ LET r == UpdateItem(view, Head(upd.new))
       IN /\ view' = r.v
          /\ IF r.err = "nil"
             THEN /\ upd' = [upd EXCEPT !.new = Tail(upd.new)]
                  /\ UNCHANGED vmux
             ELSE /\ upd' = [upd EXCEPT !.pc = "idle", !.new = <<>>,
                                        !.err = r.err]
                  /\ vmux' = "free"
    /\ UNCHANGED <<snapshot, qret, stable, compilerVars, packVars, viewerVars>>

\* Update: the loop is over; return nil (and unlock).
Update_Return ==
    /\ upd.pc = "loop"
    /\ upd.new = <<>>
    /\ upd' = [upd EXCEPT !.pc = "idle", !.err = "nil"]
    /\ vmux' = "free"
    /\ stable' = view
    /\ UNCHANGED <<snapshot, view, qret, compilerVars, packVars, viewerVars>>

\* A reader calls Viewer.GetBoard().
ViewerGetBoard ==
    /\ view.nil \/ vmux = "free"
    /\ LET r == ViewerGetBoardResult(view)
       IN qret' = [NoQuery EXCEPT !.op = "GetBoard", !.err = r.err,
                                  !.out = r.out]
    /\ UNCHANGED <<snapshot, view, vmux, upd, stable, compilerVars, packVars,
                   viewerVars>>

\* A reader calls Viewer.GetVotes(in).
GetVotes ==
    /\ view.nil \/ vmux = "free"
    /\ \E perspective \in Users, h \in ContentHashes :
         LET r == GetVotesResult(view, perspective, h)
         IN qret' = [NoQuery EXCEPT !.op = "GetVotes", !.h = h,
                                    !.perspective = perspective,
                                    !.err = r.err, !.out = r.out]
    /\ UNCHANGED <<snapshot, view, vmux, upd, stable, compilerVars, packVars,
                   viewerVars>>

\* A reader calls Viewer.GetUserProfile(in).
GetUserProfile ==
    /\ view.nil \/ vmux = "free"
    /\ \E upk \in Users :
         LET r == GetUserProfileResult(view, upk)
         IN qret' = [NoQuery EXCEPT !.op = "GetUserProfile", !.h = upk,
                                    !.err = r.err, !.out = r.out]
    /\ UNCHANGED <<snapshot, view, vmux, upd, stable, compilerVars, packVars,
                   viewerVars>>

\* A reader calls Viewer.GetThreadPage(in), asking for the whole list.
GetThreadPage ==
    /\ view.nil \/ vmux = "free"
    /\ \E perspective \in Users, h \in ContentHashes :
         LET r == GetThreadPageResult(view, perspective, h, 0,
                                      Cardinality(Items))
         IN /\ qret' = [NoQuery EXCEPT !.op = "GetThreadPage", !.h = h,
                                       !.perspective = perspective,
                                       !.err = r.err, !.out = r.out]
            /\ view' = [view EXCEPT !.content = r.content]
    /\ UNCHANGED <<snapshot, vmux, upd, stable, compilerVars, packVars,
                   viewerVars>>

UpdateStep ==
    \/ Update_SetBoard
    \/ Update_Item
    \/ Update_Return

NextContent ==
    \/ NewViewer
    \/ Update_Nil
    \/ Update_Lock
    \/ UpdateStep
    \/ ViewerGetBoard
    \/ GetVotes
    \/ GetUserProfile

NextPages ==
    \/ NewViewer
    \/ Update_Nil
    \/ Update_Lock
    \/ UpdateStep
    \/ GetThreadPage

(***************************************************************************)
(* Specifications                                                          *)
(***************************************************************************)
Init ==
    /\ CompilerIdle
    /\ PackIdle
    /\ ViewerIdle
    /\ ContentIdle

Next == NextCompiler

Spec == Init /\ [][Next]_vars

\* Go schedules every runnable goroutine: the loop, the caller of Close and
\* the caller of InitBoard each take their next step when it stays enabled.
FairSpec ==
    /\ Init
    /\ [][Next]_vars
    /\ WF_vars(LoopStep)
    /\ WF_vars(CloseStep)
    /\ WF_vars(InitBoard)
    /\ WF_vars(Tick)

\* The snapshot instance alone: a pack arrives, an instance is built from
\* it, vote pages are appended, the next pack arrives.
InitPack ==
    /\ CompilerIdle
    /\ fetched \in Roots
    /\ inst = NoInst
    /\ pret = NoPRet
    /\ packMux = "free"
    /\ app = [c \in Callers |-> NoCall]
    /\ ViewerIdle
    /\ ContentIdle

SpecPack == InitPack /\ [][NextPack]_vars

\* The Viewer alone: user-votes arrive one after the other.
InitViewer == Init

SpecViewer == InitViewer /\ [][NextViewer]_vars

\* The Viewer of one board: NewViewer on a snapshot of the board, then
\* Updates with the following snapshots, and read queries in between.
InitContent ==
    /\ CompilerIdle
    /\ PackIdle
    /\ ViewerIdle
    /\ snapshot \in SnapshotsUpTo(MaxInit)
    /\ view = NoViewer
    /\ vmux = "free"
    /\ upd = NoUpdate
    /\ qret = NoQuery
    /\ stable = NoViewer

SpecContent == InitContent /\ [][NextContent]_vars

\* The same Viewer with the thread-page query, which writes vote views into
\* the representations of the Container, as its only read query.
SpecPages == InitContent /\ [][NextPages]_vars

\* The snapshot instance alone, over packs with content and deletions.
InitChanges ==
    /\ CompilerIdle
    /\ fetched \in ContentRoots
    /\ inst = NoInst
    /\ pret = NoPRet
    /\ packMux = "free"
    /\ app = [c \in Callers |-> NoCall]
    /\ ViewerIdle
    /\ ContentIdle

SpecChanges == InitChanges /\ [][NextChanges]_vars

\* One snapshot instance and the callers of Do.
InitAppend ==
    /\ CompilerIdle
    /\ fetched \in WellFormedRoots
    /\ inst = NoInst
    /\ pret = NoPRet
    /\ packMux = "free"
    /\ app = [c \in Callers |-> NoCall]
    /\ ViewerIdle
    /\ ContentIdle

SpecAppend == InitAppend /\ [][NextAppend]_vars

(***************************************************************************)
(* Claims about the Compiler                                               *)
(***************************************************************************)

\* C1: once Close has returned, the refresh loop has exited (so no sweep
\* starts or is still running afterwards).
C1_CloseStopsLoop == closePc = "returned" => loopPc = "exited"

\* C2: under fair scheduling every call of Close eventually returns.
C2_CloseReturns == (closePc = "select") ~> (closePc = "returned")

\* What GetBoard(pk) has to return according to the history of successful
\* InitBoard calls.
ExpectedGetBoard(pk) ==
    IF pk \notin DOMAIN lastGood
    THEN [NoRet EXCEPT !.op = "GetBoard", !.pk = pk, !.err = "NotFound"]
    ELSE [NoRet EXCEPT !.op = "GetBoard", !.pk = pk, !.err = "nil",
                       !.id = lastGood[pk].id,
                       !.master = lastGood[pk].hadSk]

\* C7: GetBoard(pk) returns the instance built by the most recent successful
\* InitBoard(pk), master exactly when that call had a secret key, NotFound
\* exactly when no InitBoard(pk) succeeded; failed InitBoards and refresh
\* sweeps do not change which instance the entry holds.
C7_GetBoardLatest ==
    \A pk \in PKs : GetBoardResult(boards, pk) = ExpectedGetBoard(pk)

\* A second, writable instance replaced the first one of the same key, a
\* later InitBoard of that key failed, and the entry is still that instance.
C7_Witness ==
    \E pk \in PKs :
        /\ pk \in DOMAIN boards
        /\ boards[pk].id = 2
        /\ boards[pk].master
        /\ DOMAIN boards = {pk}
        /\ cret.op = "GetBoard" /\ cret.pk = pk /\ cret.id = 2

\* The InitBoard call in progress has more than one secret key and returns.
InitBoardManyKeysReturns ==
    /\ callerPc = "init"
    /\ callerArgs.nsk > 1
    /\ callerPc' = "idle"

\* C8 as claimed: InitBoard with more than one secret key returns Internal
\* and leaves the mapping unchanged, whatever the snapshot store answers.
C8_AlwaysInternal ==
    [][InitBoardManyKeysReturns =>
          (cret'.err = "Internal" /\ boards' = boards)]_vars

\* C8 amended: InitBoard with more than one secret key returns an error and
\* leaves the mapping unchanged; the error is Internal when the fetch of the
\* latest snapshot succeeds and the fetch's own error when it fails.
C8_ManyKeysRejected ==
    [][InitBoardManyKeysReturns =>
          /\ boards' = boards
          /\ cret'.err = (IF cret'.fetched THEN "Internal" ELSE "FetchFailed")
      ]_vars

\* InitBoard with two secret keys returned Internal on a non-empty mapping.
C8_Witness ==
    /\ cret.op = "InitBoard"
    /\ cret.nsk = 2
    /\ cret.fetched
    /\ cret.err = "Internal"
    /\ boards # <<>>

(***************************************************************************)
(* Claims about the snapshot instance                                      *)
(***************************************************************************)
ThreadVotePages == inst.pack[indexThreadVotes].refs
PostVotePages == inst.pack[indexPostVotes].refs

\* The vote-page list and the votes store an append operation is meant for.
ListOfOp(op) ==
    IF op = "AppendThreadVotesPage" THEN ThreadVotePages ELSE PostVotePages
StoreOfOp(op) ==
    IF op = "AppendThreadVotesPage" THEN inst.tVotesStore
    ELSE inst.pVotesStore

AppendReturned ==
    pret.op \in {"AppendThreadVotesPage", "AppendPostVotesPage"}

\* C3: the appends are idempotent: after a successful call with h the list
\* of that kind holds exactly one page for h and the store of that kind one
\* summary for h; a call made when a page for h already exists (also one of
\* the snapshot as constructed) returns success and changes nothing.
C3_AppendIdempotent ==
    AppendReturned =>
        /\ pret.err = "nil" =>
              /\ Count(ListOfOp(pret.op), pret.h) = 1
              /\ StoreHas(StoreOfOp(pret.op), pret.h)
        /\ pret.existed => (pret.err = "nil" /\ ~pret.changed)

\* C4: after a successful construction the thread-votes store and the
\* post-votes store are both present, each holds the summaries of its own
\* vote-page list (plus what a predecessor carried forward) and, without a
\* predecessor, nothing else.
C4_TwoVotesStores ==
    (pret.op = "NewPackInstance" /\ pret.err = "nil") =>
        /\ ~inst.tVotesStore.nil
        /\ ~inst.pVotesStore.nil
        /\ Range(ThreadVotePages) \subseteq DOMAIN inst.tVotesStore.m
        /\ Range(PostVotePages) \subseteq DOMAIN inst.pVotesStore.m
        /\ ~pret.hadPrev =>
              /\ DOMAIN inst.tVotesStore.m = Range(ThreadVotePages)
              /\ DOMAIN inst.pVotesStore.m = Range(PostVotePages)

\* C5: an append is all-or-nothing: when it returns an error neither the
\* list nor the store has changed; when it returns success for a hash that
\* had no page, the list has the new page and the store the new summary.
C5_AppendAllOrNothing ==
    AppendReturned =>
        /\ pret.err # "nil" => ~pret.changed
        /\ (pret.err = "nil" /\ ~pret.existed) =>
              /\ pret.h \in Range(ListOfOp(pret.op))
              /\ StoreHas(StoreOfOp(pret.op), pret.h)

\* A root that does not follow the fixed schema.
Malformed(root) ==
    \/ Len(root) # 5
    \/ \E i \in 1..Len(root) : root[i].kind # ExpectedKind(i)

Alone(b) == processUserVote(ensureUser(EmptyViewer, b.Creator), b).profiles

\* C9: latest-vote-wins: whatever earlier votes the creator cast on the
\* target, after a user-vote the six relationship sets hold for the pair
\* exactly what that vote alone brings about, in both profiles.
C9_LatestVoteWins ==
    uvLast.set =>
        LET b == uvLast.body
        IN /\ Relations(viewer.profiles, b.Creator, b.OfUser)
                = Relations(Alone(b), b.Creator, b.OfUser)
           /\ RelationsBy(viewer.profiles, b.Creator, b.OfUser)
                = RelationsBy(Alone(b), b.Creator, b.OfUser)

\* u1 trusted u2, then marked u2 as spam: the trust is gone on both sides.
C9_Witness ==
    /\ uvLast.set
    /\ uvLast.wasTrusted
    /\ uvLast.body = Body("u1", "u2", -1, {"spam"})
    /\ "u2" \in viewer.profiles["u1"].MarkedAsSpam
    /\ "u2" \notin viewer.profiles["u1"].Trusted
    /\ "u1" \notin viewer.profiles["u2"].TrustedBy

Bit(x) == IF x THEN 1 ELSE 0
HowMany(r) == Bit(r.trusted) + Bit(r.spam) + Bit(r.blocked)

\* C10 as claimed: for every pair at most one of trusted, markedAsSpam and
\* blocked holds.
C10_AtMostOneRelation ==
    \A c \in Users, t \in Users : HowMany(Relations(viewer.profiles, c, t)) <= 1

\* C10 amended: trusted never holds together with markedAsSpam or blocked;
\* markedAsSpam and blocked hold together after a vote exactly when the vote
\* has value -1 and carries both the spam and the block tag.
C10_TrustedExclusive ==
    /\ \A c \in Users, t \in Users :
         LET r == Relations(viewer.profiles, c, t)
         IN r.trusted => (~r.spam /\ ~r.blocked)
    /\ uvLast.set =>
         LET b == uvLast.body
             r == Relations(viewer.profiles, b.Creator, b.OfUser)
         IN (r.spam /\ r.blocked)
              <=> (b.Value = -1 /\ {"spam", "block"} \subseteq b.Tags)

\* A vote of value -1 with the spam and block tags on a trusted user: both
\* relations are set and the trust is gone.
C10_Witness ==
    /\ uvLast.set
    /\ uvLast.wasTrusted
    /\ uvLast.body.Value = -1
    /\ uvLast.body.Tags = {"spam", "block"}
    /\ HowMany(Relations(viewer.profiles, uvLast.body.Creator,
                         uvLast.body.OfUser)) = 2

\* A user-vote of value 0 is processed in this step.
ZeroVoteStep ==
    /\ viewer' # viewer \/ uvLast' # uvLast
    /\ uvLast'.body.Value = 0

\* The six sets of a profile, NewProfile's when the user has none yet.
ProfileOf(profiles, u) ==
    IF u \in DOMAIN profiles THEN profiles[u] ELSE NewProfile

\* C11 as claimed: a user-vote of value 0 from C on T adds C and T to the
\* participant index and leaves the six sets of every profile as they were,
\* the entries an earlier vote of C on T has set included.
C11_ZeroVoteChangesNoSet ==
    [][ZeroVoteStep =>
          /\ {uvLast'.body.Creator, uvLast'.body.OfUser}
                \subseteq Range(viewer'.Users)
          /\ \A u \in Users :
                ProfileOf(viewer'.profiles, u) = ProfileOf(viewer.profiles, u)
      ]_vars

\* C11 amended: a user-vote of value 0 from C on T adds C and T to the
\* participant index (after the participants already there), removes T from
\* C's trusted, markedAsSpam and blocked sets and C from T's trustedBy,
\* markedAsSpamBy and blockedBy sets, and leaves every other entry of every
\* profile as it was.
C11_ZeroVoteClearsPair ==
    [][ZeroVoteStep =>
          LET c == uvLast'.body.Creator
              t == uvLast'.body.OfUser
          IN /\ viewer'.Users
                  = MappedAppend(MappedAppend(viewer.Users, c), t)
             /\ DOMAIN viewer'.profiles = (DOMAIN viewer.profiles) \cup {c, t}
             /\ \A u \in Users :
                   LET old == ProfileOf(viewer.profiles, u)
                       new == ProfileOf(viewer'.profiles, u)
                       out == IF u = c THEN {t} ELSE {}
                       in == IF u = t THEN {c} ELSE {}
                   IN /\ new.Trusted = old.Trusted \ out
                      /\ new.MarkedAsSpam = old.MarkedAsSpam \ out
                      /\ new.Blocked = old.Blocked \ out
                      /\ new.TrustedBy = old.TrustedBy \ in
                      /\ new.MarkedAsSpamBy = old.MarkedAsSpamBy \ in
                      /\ new.BlockedBy = old.BlockedBy \ in
      ]_vars

\* u1 trusted u2 and u2 trusts u1; u1's vote of value 0 on u2 has removed
\* the first relation and kept the second.
C11_Witness ==
    /\ uvLast.set
    /\ uvLast.wasTrusted
    /\ uvLast.body.Value = 0
    /\ uvLast.body.Creator = "u1" /\ uvLast.body.OfUser = "u2"
    /\ viewer.Users = <<"u2", "u1">>
    /\ "u2" \notin viewer.profiles["u1"].Trusted
    /\ "u1" \in viewer.profiles["u2"].Trusted
    /\ "u2" \in viewer.profiles["u1"].TrustedBy

(***************************************************************************)
(* Claims about the Viewer's content                                       *)
(***************************************************************************)

\* The Viewer a direct bootstrap from the latest snapshot gives.
Bootstrapped == NewViewerResult(snapshot, TRUE).v

\* An Update has returned that started on a Viewer equal to the bootstrap
\* from the snapshot of then, and that could read the new snapshot.
UpdateReturned ==
    /\ upd.pc = "idle"
    /\ upd.n > 0
    /\ upd.sync
    /\ upd.err # "ReadFailed"

\* C12: incremental-update equivalence: a Viewer bootstrapped from snapshot
\* A and updated with snapshot B (B adds content to A) and the change set
\* from A to B, its new list in any order, has the same Indexer and
\* Container as a Viewer bootstrapped from B.
C12_UpdateEqualsBootstrap ==
    UpdateReturned => WithoutViews(view) = Bootstrapped

\* C13: a read query never sees the Indexer and Container with only part of
\* the change set of one Update applied: whenever a query has returned, the
\* Viewer is as the last call that returned without error left it (the
\* bootstrap followed by the Updates applied completely), also after an
\* Update that returned an error.
C13_ReadersSeeWholeUpdates ==
    (qret.op # "none" /\ ~view.nil) => WithoutViews(view) = WithoutViews(stable)

\* C14: GetThreadPage fails with NotFound for every hash that is not in the
\* board's thread list, a hash indexed as a post or as the board itself
\* included; it neither returns a page nor crashes for such a hash.
C14_ThreadPageNotFound ==
    (qret.op = "GetThreadPage" /\ ~view.nil /\ qret.h \notin Range(view.Threads))
        => qret.err = "NotFound"

\* The hashes under which the Container holds a representation of the board.
BoardKeys == {h \in DOMAIN view.content : view.content[h].Type = "board"}

\* The board item of the latest snapshot has been read by the call that
\* built the Viewer or by the last Update.
BoardRead ==
    \/ upd.pc = "loop"
    \/ upd.pc = "idle" /\ upd.err # "ReadFailed"

\* C15: after the bootstrap and after any sequence of Updates, also Updates
\* in which the hash of the board item changes, the Container holds the
\* representation of the board exactly once, under the current board hash,
\* GetBoard returns that representation, and no entry is left under an
\* earlier board hash.
C15_BoardHeldOnce ==
    ~view.nil =>
        /\ BoardKeys = {view.Board}
        /\ BoardRead => view.Board = snapshot.board
        /\ \A h \in BoardHashes \ {view.Board} : h \notin DOMAIN view.content
        /\ view.content[view.Board]
             = [ToRep(BoardItem(view.Board)) EXCEPT !.PubKey = BoardPK]
        /\ qret.op = "GetBoard" =>
              /\ qret.err = "nil"
              /\ qret.out = view.content[view.Board]
              /\ qret.out.Hash = view.Board

\* An Update with a new version of the board item and a thread and a vote on
\* it has returned, and GetBoard has returned the new version.
C15_Witness ==
    /\ upd.n > 0
    /\ upd.err = "nil"
    /\ view.Board = "b2"
    /\ DOMAIN view.content = {"b2", "t1"}
    /\ "t1" \in DOMAIN view.votes
    /\ qret.op = "GetBoard"
    /\ qret.out.Hash = "b2"

\* C16: GetVotes(perspective, h) returns the vote view of the aggregate when
\* votes exist for h, an empty vote view and no error when h is indexed
\* content without votes, and NotFound when h is not indexed; a thread-vote
\* or post-vote whose target is not in the Container creates no aggregate,
\* so it never makes GetVotes of its target succeed.
C16_GetVotesCases ==
    ~view.nil =>
        /\ \A h \in DOMAIN view.votes :
             /\ h \in DOMAIN view.content
             /\ view.votes[h].Votes # {}
        /\ qret.op = "GetVotes" =>
              IF qret.h \in DOMAIN view.votes
              THEN /\ qret.err = "nil"
                   /\ qret.out = View(view.votes[qret.h], qret.perspective)
                   /\ qret.out.Up + qret.out.Down > 0
              ELSE IF qret.h \in DOMAIN view.content
              THEN /\ qret.err = "nil"
                   /\ qret.out = [Ref |-> qret.h, Up |-> 0, Down |-> 0,
                                  Voted |-> FALSE]
              ELSE qret.err = "NotFound"

\* The snapshot holds a vote on post p1 and a vote on thread t1, t1 is
\* indexed and p1 is not: GetVotes of p1 has returned NotFound.
C16_Witness ==
    /\ ~view.nil
    /\ {PV, TV} \subseteq Range(snapshot.subs)
    /\ upd.pc = "idle"
    /\ "t1" \in DOMAIN view.votes
    /\ "p1" \notin DOMAIN view.content
    /\ qret.op = "GetVotes"
    /\ qret.h = "p1"
    /\ qret.err = "NotFound"

\* Update's loop is at a thread-vote or post-vote whose target is not in
\* the Container.
DanglingVoteStep ==
    /\ upd.pc = "loop"
    /\ upd.new # <<>>
    /\ Head(upd.new).Type \in {"thread_vote", "post_vote"}
    /\ VoteTarget(Head(upd.new)) \notin DOMAIN view.content

\* NewViewer has built a Viewer from the snapshot.
BootstrapStep == view.nil /\ ~view'.nil

\* The hashes of the threads and posts in the snapshot's thread pages.
PageHashes(sn) ==
    {c.Hash : c \in UNION {PageItems(sn.pages[i]) : i \in 1..Len(sn.pages)}}

\* C19: a thread-vote or post-vote whose target content is not in the
\* Container is ignored without error, in bootstrap and in Update: no vote
\* aggregate is created or modified, no content representation changes, and
\* the remaining items are processed.
C19_DanglingVoteIgnored ==
    [][/\ DanglingVoteStep =>
            /\ view'.votes = view.votes
            /\ view'.content = view.content
            /\ upd'.pc = "loop"
            /\ upd'.err = upd.err
            /\ upd'.new = Tail(upd.new)
       /\ BootstrapStep =>
            /\ upd'.err = "nil"
            /\ DOMAIN view'.content = {snapshot.board} \cup PageHashes(snapshot)
            /\ \A c \in Range(snapshot.subs) :
                 /\ c.Creator \in Range(view'.Users)
                 /\ c.Type \in {"thread_vote", "post_vote"} =>
                      IF VoteTarget(c) \in PageHashes(snapshot)
                      THEN [Creator |-> c.Creator, Value |-> c.Value]
                               \in view'.votes[VoteTarget(c)].Votes
                      ELSE VoteTarget(c) \notin DOMAIN view'.votes
      ]_vars

\* Update has passed the vote on post p1, which is in no thread page, and
\* is at the next item: the vote's creator is a user now and there is no
\* aggregate.
C19_Witness ==
    /\ upd.pc = "loop"
    /\ upd.new = <<UV>>
    /\ PV \in Range(snapshot.subs)
    /\ PageHashes(snapshot) = {}
    /\ "u1" \notin Range(stable.Users)
    /\ "u1" \in Range(view.Users)
    /\ DOMAIN view.votes = {}
    /\ DOMAIN view.content = {view.Board}

(***************************************************************************)
(* Claims about the change set of a snapshot instance                      *)
(***************************************************************************)
\* NewPackInstance has just returned an instance.
InstanceBuilt == pret.op = "NewPackInstance" /\ pret.err = "nil"

\* C17: a snapshot instance constructed with no predecessor has an empty
\* change set (new, deletedThreads and deletedPosts all empty), whatever the
\* Deleted slot lists: RecordDeleteThread and RecordDeletePost are no-ops.
C17_NoPredecessorNoChanges ==
    (InstanceBuilt /\ ~pret.hadPrev) =>
        /\ inst.changes.new = <<>>
        /\ inst.changes.deletedThreads = <<>>
        /\ inst.changes.deletedPosts = <<>>

\* An instance was built without predecessor from a snapshot that has a
\* thread with a post and lists a deleted thread and a deleted post.
C17_Witness ==
    /\ InstanceBuilt
    /\ ~pret.hadPrev
    /\ inst.pack[indexContent].refs = <<ThreadPage("h1", <<"h2">>)>>
    /\ DeletedThreads(inst.pack[indexDeleted]) = <<"h1">>
    /\ DeletedPosts(inst.pack[indexDeleted]) = <<"h2">>
    /\ inst.changes = NewChanges(FALSE)

\* C18: when an instance is constructed with a predecessor, every post hash
\* of the Deleted slot is recorded in deletedPosts together with the thread
\* the origin index built for the new snapshot gives for it, also for a
\* post that first appears in the new snapshot.
C18_DeletedPostsWithNewOrigin ==
    (InstanceBuilt /\ pret.hadPrev) =>
        LET posts == DeletedPosts(inst.pack[indexDeleted])
        IN inst.changes.deletedPosts =
             [i \in 1..Len(posts) |->
                [OfThread |-> GetPostOrigin(inst.gotStore, posts[i]),
                 Post |-> posts[i]]]

(***************************************************************************)
(* Claims about the sweep of the refresh loop                              *)
(***************************************************************************)
\* The refresh loop runs the sweep of doUpdate.
SweepStep == loopPc = "sweep" /\ loopPc' = "select"

\* C20: a refresh tick updates a board only when the board is master and
\* its update policy reports a refresh due; a subscriber board is never
\* updated by the refresh loop; and a failed update of one board does not
\* stop the sweep: every other master board that is due is still handled.
C20_SweepUpdatesDueMasters ==
    [][/\ SweepStep =>
            /\ DOMAIN boards' = DOMAIN boards
            /\ \A p \in DOMAIN boards :
                 /\ boards'[p] # boards[p] =>
                        boards[p].master /\ boards[p].due
                 /\ ~boards[p].master => boards'[p] = boards[p]
                 /\ sweep'[p] = "skipped" <=>
                        ~(boards[p].master /\ boards[p].due)
                 /\ sweep'[p] = "updated" <=>
                        boards'[p] = [boards[p] EXCEPT !.due = ~boards[p].due]
                 /\ sweep'[p] = "failed" => boards'[p] = boards[p]
       /\ (loopPc' # loopPc /\ ~SweepStep) => boards' = boards
      ]_vars

\* After a sweep over two master boards that were due: the update of pk1
\* failed and pk1 is still due, pk2 was updated and is no longer due.
C20_Witness ==
    /\ loopPc = "select"
    /\ DOMAIN sweep = PKs
    /\ sweep["pk1"] = "failed"
    /\ sweep["pk2"] = "updated"
    /\ boards["pk1"].master /\ boards["pk1"].due
    /\ boards["pk2"].master /\ ~boards["pk2"].due

\* C24: the directional reputation sets are mirror images of each other:
\* for all users A and B (A = B included), B is in A.Trusted exactly when A
\* is in B.TrustedBy, and likewise for MarkedAsSpam / MarkedAsSpamBy and
\* Blocked / BlockedBy.
C24_SetsMirrored ==
    \A a \in Users, b \in Users :
        Relations(viewer.profiles, a, b) = RelationsBy(viewer.profiles, a, b)

\* u1 has just voted on itself and trusts itself, after it had blocked u2
\* and u2 had marked u1 as spam.
C24_Witness ==
    /\ uvLast.set
    /\ uvLast.body.Creator = "u1"
    /\ uvLast.body.OfUser = "u1"
    /\ DOMAIN viewer.profiles = Users
    /\ "u1" \in viewer.profiles["u1"].Trusted
    /\ "u1" \in viewer.profiles["u1"].TrustedBy
    /\ "u2" \in viewer.profiles["u1"].Blocked
    /\ "u2" \in viewer.profiles["u1"].MarkedAsSpamBy

\* C22: every user public key in the participant index has a profile in
\* the Container, so GetUserProfile never returns Internal: it returns
\* NotFound for a key that is not in the participant index and the profile
\* otherwise.
C22_IndexedUsersHaveProfiles ==
    ~view.nil =>
        /\ \A u \in Range(view.Users) : u \in DOMAIN view.profiles
        /\ qret.op = "GetUserProfile" =>
              /\ qret.err # "Internal"
              /\ IF qret.h \in Range(view.Users)
                 THEN /\ qret.err = "nil"
                      /\ qret.out = view.profiles[qret.h]
                 ELSE qret.err = "NotFound"

\* After an Update that brought thread t1 of u1 and the user-vote of u2 on
\* u1, GetUserProfile of u1 has returned the profile that u2 trusts.
C22_Witness ==
    /\ ~view.nil
    /\ upd.pc = "idle" /\ upd.n > 0 /\ upd.err = "nil"
    /\ "t1" \in DOMAIN view.content
    /\ qret.op = "GetUserProfile"
    /\ qret.h = "u1"
    /\ qret.err = "nil"
    /\ qret.out.TrustedBy = {"u2"}

\* The last read query returned a thread page; the page holds pointers to
\* the representations of the Container, named here by their hashes.
HeldPage == qret.op = "GetThreadPage" /\ qret.err = "nil"
HeldRefs(page) ==
    {page.Thread.Hash} \cup {page.Posts[i].Hash : i \in 1..Len(page.Posts)}

\* The representations of page, as values.
PageReps(page) == {page.Thread} \cup Range(page.Posts)

\* C23: the vote view attached to a thread or post in the result of
\* GetThreadPage for perspective P is the view computed for P and stays so:
\* a later query for another perspective does not change the vote view
\* inside a result already returned, and a result never carries a view
\* computed for another perspective.
C23_ViewStaysWithPerspective ==
    [][/\ HeldPage =>
            \A h \in HeldRefs(qret.out) :
                /\ h \in DOMAIN view'.content
                /\ view'.content[h].Votes = view.content[h].Votes
       /\ (qret' # qret /\ qret'.op = "GetThreadPage" /\ qret'.err = "nil") =>
            \A rep \in PageReps(qret'.out) :
                rep.Hash \in DOMAIN view'.votes =>
                    rep.Votes = View(view'.votes[rep.Hash], qret'.perspective)
      ]_vars

(***************************************************************************)
(* Claims about concurrent appends on one snapshot instance                *)
(***************************************************************************)
\* The callers whose append is running inside Do.
InFlight == {c \in Callers : app[c].pc \in {"get", "set"}}

\* The append of caller c has returned without an error of the pack.
Appended(c) ==
    /\ app[c].pc = "done"
    /\ app[c].err \notin {"InvalidRead", "WriteFailed"}

\* C21: mutations of one snapshot instance are serialized: at most one
\* append is in flight at any time, so of two concurrent appends neither
\* entry is lost: for each the list of its kind holds exactly one page for
\* its hash and the store of its kind one summary, whether the two hashes
\* are the same or not.
C21_AppendsSerialized ==
    /\ Cardinality(InFlight) <= 1
    /\ (\A c \in Callers : Appended(c)) =>
          \A c \in Callers :
              /\ app[c].err = "nil"
              /\ Count(ListOfOp(app[c].op), app[c].h) = 1
              /\ StoreHas(StoreOfOp(app[c].op), app[c].h)

\* What the mutex of Do does achieve: two appends of thread-vote pages on
\* an instance built from a snapshot without vote pages lose no entry and
\* make no duplicate.
SerializedThreadAppends ==
    /\ Cardinality(InFlight) <= 1
    /\ (/\ \A c \in Callers : Appended(c) /\ app[c].op = "AppendThreadVotesPage"
        /\ fetched[indexThreadVotes].refs = <<>>
        /\ fetched[indexPostVotes].refs = <<>>) =>
          \A c \in Callers :
              /\ app[c].err = "nil"
              /\ Count(ListOfOp(app[c].op), app[c].h) = 1
              /\ StoreHas(StoreOfOp(app[c].op), app[c].h)

=============================================================================
